---- MODULE Spec2Model ----
(***************************************************************************)
(* erb-num2csv: the table store (CsvInfo::new / parse_csv) and the         *)
(* reference resolver (VAR_REGEX with the Replacer of &CsvInfo), as        *)
(* driven by convert / convert_erb in src/src/lib.rs.                      *)
(*                                                                         *)
(* Text is a sequence of characters, each character a one-character        *)
(* string ("FW_A" stands for the single full-width letter U+FF21).         *)
(* Family names, the keys of CsvInfo.dic, are strings.  A u32 is the pair  *)
(* <<hi, lo>> of its 16-bit halves, so that the checked arithmetic of      *)
(* str::parse::<u32> keeps its 32-bit width.                               *)
(***************************************************************************)
EXTENDS Integers, Sequences, FiniteSets, TLC

VARIABLES
    opt,         \* Opt: includes, excludes, normalize, explict_target
    csvdir,      \* the files of <target>/CSV/*.CSV: stem -> content
    parsed,      \* per table file: the outcome of its filter_map closure
    dic,         \* CsvInfo.dic once built: family -> (u32 -> name)
    run,         \* position of convert(): "loading", "ready", "aborted"
    disk,        \* the ERB file on disk: NotRead, or [bom, text]
    pass,        \* how many times the ERB file has been converted
    pc,          \* position of convert_erb: "idle", "scan", "skipped", "panic"
    erb,         \* the text read by convert_erb
    dst,         \* the String replace_all is building
    last_match,  \* replace_all: end of the previous match (0-based offset)
    caps,        \* the Captures handed to replace_append, or NoCaps
    mark         \* Len(dst) when replace_append was entered

vars == <<opt, csvdir, parsed, dic, run, disk, pass, pc, erb, dst, last_match, caps, mark>>

(***************************************************************************)
(* Bounds of the model.                                                    *)
(***************************************************************************)
MaxPasses == 2      \* conversions of the same ERB file (the tool run again)
MaxLead == 1        \* characters in front of the reference token

(***************************************************************************)
(* Strings and characters.                                                 *)
(***************************************************************************)
RECURSIVE Str(_)
Str(s) == IF s = <<>> THEN "" ELSE Head(s) \o Str(Tail(s))

Last(s) == s[Len(s)]

ends_with(s, suffix) ==
    /\ Len(s) >= Len(suffix)
    /\ SubSeq(s, Len(s) - Len(suffix) + 1, Len(s)) = suffix

\* position of the first c in s (1-based), 0 when there is none: str::find
RECURSIVE find_from(_, _, _)
find_from(s, c, i) ==
    IF i > Len(s) THEN 0 ELSE IF s[i] = c THEN i ELSE find_from(s, c, i + 1)

find(s, c) == find_from(s, c, 1)

IsWhite(c) == c \in {" ", "\t", "\r", "\n"}

RECURSIVE trim_start(_)
trim_start(s) == IF s # <<>> /\ IsWhite(Head(s)) THEN trim_start(Tail(s)) ELSE s

RECURSIVE trim_end(_)
trim_end(s) ==
    IF s # <<>> /\ IsWhite(Last(s)) THEN trim_end(SubSeq(s, 1, Len(s) - 1)) ELSE s

trim(s) == trim_end(trim_start(s))

UpperOf == [a |-> "A", b |-> "B", l |-> "L", j |-> "J", u |-> "U", e |-> "E",
            p |-> "P", r |-> "R", g |-> "G"]

to_uppercase(s) == [i \in 1..Len(s) |-> IF s[i] \in DOMAIN UpperOf THEN UpperOf[s[i]] ELSE s[i]]

Digits == <<"0", "1", "2", "3", "4", "5", "6", "7", "8", "9">>

IsDigit(c) == \E d \in 1..10 : Digits[d] = c

DigitVal(c) == (CHOOSE d \in 1..10 : Digits[d] = c) - 1

(***************************************************************************)
(* str::parse::<u32>: an optional '+', then decimal digits accumulated     *)
(* with checked_mul(10) and checked_add(digit).  The result is             *)
(* [ok |-> TRUE, val |-> <<hi, lo>>] or ParseErr.                          *)
(***************************************************************************)
ParseErr == [ok |-> FALSE]

Half == 2 ^ 16

U32(n) == <<n \div Half, n % Half>>

RECURSIVE parse_digits(_, _)
parse_digits(s, acc) ==
    IF s = <<>> THEN [ok |-> TRUE, val |-> acc]
    ELSE IF ~IsDigit(Head(s)) THEN ParseErr
    ELSE LET lo == acc[2] * 10 + DigitVal(Head(s))
             hi == acc[1] * 10 + lo \div Half
         IN  IF hi >= Half THEN ParseErr
             ELSE parse_digits(Tail(s), <<hi, lo % Half>>)

parse_u32(s) ==
    LET body == IF s # <<>> /\ Head(s) = "+" THEN Tail(s) ELSE s
    IN  IF body = <<>> THEN ParseErr ELSE parse_digits(body, <<0, 0>>)

(***************************************************************************)
(* Table selection.                                                        *)
(***************************************************************************)
is_chara_csv(name) ==
    name \in {"ABL", "BASE", "CFLAG", "EX", "EXP", "JUEL", "MARK", "SOURCE", "STAIN",
              "TALENT", "CSTR", "EQUIP", "PALAM", "UP", "DOWN", "UPBASE", "DOWNBASE",
              "NOWEX", "TCVAR"}

is_global_csv(name) == name \in {"STR", "FLAG", "CFLAG", "TFLAG", "TEQUIP"}

is_need_csv(name, o) ==
    IF name \in o.includes THEN TRUE
    ELSE IF name \in o.excludes THEN FALSE
    ELSE is_chara_csv(name) \/ is_global_csv(name)

(***************************************************************************)
(* Table files.  A file is [head, lines]: head is "bom" when the file      *)
(* starts with EF BB BF, "other" when it starts with three other bytes,    *)
(* "short" when it has fewer than three bytes.                             *)
(***************************************************************************)
\* check_bom: "Err" when read_exact cannot fill the buffer, else Ok(buf == BOM)
check_bom(head) ==
    IF head = "short" THEN "Err" ELSE IF head = "bom" THEN "Ok(true)" ELSE "Ok(false)"

to_halfwidth(c) == IF c = "FW_A" THEN "A" ELSE "None"

RECURSIVE normalize_name(_)
normalize_name(name) ==
    IF name = <<>> THEN <<>>
    ELSE LET c == Head(name)
             h == to_halfwidth(c)
             out == IF h # "None" THEN <<h>>
                    ELSE IF c \in {" ", ")"} THEN <<>>
                    ELSE IF c = "(" THEN <<"_", "_">>
                    ELSE <<c>>
         IN  out \o normalize_name(Tail(name))

\* one pass of the loop of parse_csv over the line read into buf: kind is
\* "skip" (continue), "panic" (unwrap on None), "Err" (the ? on parse), or
\* "insert" with the key and name given to ret.insert
parse_line(buf, normalize) ==
    LET trimmed == trim(buf)
        comment == find(trimmed, ";")
        line == IF comment # 0 THEN SubSeq(trimmed, 1, comment - 1) ELSE trimmed
        at == find(line, ",")
        num == SubSeq(line, 1, at - 1)
        rest == SubSeq(line, at + 1, Len(line))
        pos == find(rest, ",")
        name == IF pos # 0 THEN SubSeq(rest, 1, pos - 1) ELSE rest
        key == parse_u32(num)
    IN  IF line = <<>> THEN [kind |-> "skip"]
        ELSE IF at = 0 THEN [kind |-> "panic"]
        ELSE IF ~key.ok THEN [kind |-> "Err"]
        ELSE [kind |-> "insert", key |-> key.val,
              name |-> IF normalize THEN normalize_name(name) ELSE name]

Insert(m, k, v) == [x \in DOMAIN m \cup {k} |-> IF x = k THEN v ELSE m[x]]

EmptyMap == [x \in {} |-> <<>>]

RECURSIVE parse_lines(_, _, _)
parse_lines(lines, normalize, ret) ==
    IF lines = <<>> THEN [kind |-> "Ok", map |-> ret]
    ELSE LET r == parse_line(Head(lines), normalize)
         IN  IF r.kind = "skip" THEN parse_lines(Tail(lines), normalize, ret)
             ELSE IF r.kind \in {"panic", "Err"} THEN [kind |-> r.kind]
             ELSE parse_lines(Tail(lines), normalize, Insert(ret, r.key, r.name))

\* parse_csv: Err, a panic, or Ok(map); a file without the marker gives Ok(empty map)
parse_csv(file, normalize) ==
    LET bom == check_bom(file.head)
    IN  IF bom = "Err" THEN [kind |-> "Err"]
        ELSE IF bom = "Ok(false)" THEN [kind |-> "Ok", map |-> EmptyMap]
        ELSE parse_lines(file.lines, normalize, EmptyMap)

(***************************************************************************)
(* VAR_REGEX: ([^(){\[%: \n]+)(:[^ (){\n:]+)?:(\d+), matched leftmost-first *)
(* with greedy repetitions that give characters back on failure.           *)
(***************************************************************************)
\* the first class written as [^:]: the delimiters are forgotten
InClassColonOnly(k, c) ==
    CASE k = "g1" -> c # ":"
      [] k = "g2" -> c \notin {" ", "(", ")", "{", "\n", ":"}
      [] k = "d"  -> IsDigit(c)

InClass(k, c) ==
    CASE k = "g1" -> c \notin {"(", ")", "{", "[", "%", ":", " ", "\n"}
      [] k = "g2" -> c \notin {" ", "(", ")", "{", "\n", ":"}
      [] k = "d"  -> IsDigit(c)

\* the last index of the longest run of class k that starts at i (i - 1: no run)
RECURSIVE RunEnd(_, _, _)
RunEnd(t, i, k) ==
    IF i <= Len(t) /\ InClass(k, t[i]) THEN RunEnd(t, i + 1, k) ELSE i - 1

NoCaps == [start |-> 0, end |-> 0, var |-> <<>>, g2 |-> <<>>, idx |-> <<>>]

\* ":(\d+)" after position p; g2 = <<>> is the group that took no part
TryIdx(t, s, e1, p) ==
    LET e3 == RunEnd(t, p + 2, "d")
    IN  IF p + 1 <= Len(t) /\ t[p + 1] = ":" /\ e3 >= p + 2
        THEN [start |-> s, end |-> e3, var |-> SubSeq(t, s, e1),
              g2 |-> SubSeq(t, e1 + 1, p), idx |-> SubSeq(t, p + 2, e3)]
        ELSE NoCaps

\* "(:[^ (){\n:]+)" ending at e2, then shorter ones
RECURSIVE TryG2(_, _, _, _)
TryG2(t, s, e1, e2) ==
    IF e2 < e1 + 2 THEN NoCaps
    ELSE LET r == TryIdx(t, s, e1, e2)
         IN  IF r # NoCaps THEN r ELSE TryG2(t, s, e1, e2 - 1)

\* group 1 ending at e1, then shorter ones; the optional group is tried first
RECURSIVE TryG1(_, _, _)
TryG1(t, s, e1) ==
    IF e1 < s THEN NoCaps
    ELSE LET with == IF e1 + 1 <= Len(t) /\ t[e1 + 1] = ":"
                     THEN TryG2(t, s, e1, RunEnd(t, e1 + 2, "g2"))
                     ELSE NoCaps
             r == IF with # NoCaps THEN with ELSE TryIdx(t, s, e1, e1)
         IN  IF r # NoCaps THEN r ELSE TryG1(t, s, e1 - 1)

MatchAt(t, s) == TryG1(t, s, RunEnd(t, s, "g1"))

\* the next match that starts at position s or later
RECURSIVE VAR_REGEX(_, _)
VAR_REGEX(t, s) ==
    IF s > Len(t) THEN NoCaps
    ELSE LET m == MatchAt(t, s)
         IN  IF m # NoCaps THEN m ELSE VAR_REGEX(t, s + 1)

\* the token rebuilt from its first and last group, the optional one forgotten
allWithoutScope(t, m) == m.var \o <<":">> \o m.idx

all(t, m) == SubSeq(t, m.start, m.end)

(***************************************************************************)
(* impl Replacer for &CsvInfo                                              *)
(***************************************************************************)
s_NAME == <<"N", "A", "M", "E">>
s_TARGET == <<":", "T", "A", "R", "G", "E", "T">>

var_idx(var) == IF ends_with(var, s_NAME) THEN SubSeq(var, 1, Len(var) - 4) ELSE var

\* no redirection: the table is looked up under the name as written
dic_keyNoAlias(v) == v

\* the key given to self.dic.get
dic_key(v) ==
    CASE v \in {"PALAM", "UP", "DOWN"} -> "JUEL"
      [] v = "NOWEX" -> "EX"
      [] v \in {"UPBASE", "DOWNBASE"} -> "BASE"
      [] OTHER -> v

family(var) == dic_key(Str(var_idx(var)))

\* the group is tested on the resolved family instead of the name as written
chara_partOnFamily(m, explict_target) ==
    IF m.g2 # <<>> THEN m.g2
    ELSE IF explict_target /\ is_chara_csv(family(m.var)) THEN s_TARGET
    ELSE <<>>

\* what is pushed between var and ':'
chara_part(m, explict_target) ==
    IF m.g2 # <<>> THEN m.g2
    ELSE IF explict_target /\ is_chara_csv(Str(m.var)) THEN s_TARGET
    ELSE <<>>

\* the table is looked up by the digits as written: "01" is no key
index_partByText(d, idx) ==
    LET k == parse_u32(idx)
    IN  IF ~k.ok THEN [panic |-> TRUE, text |-> <<>>]
        ELSE [panic |-> FALSE,
              text |-> IF k.val \in DOMAIN d /\ (Len(idx) = 1 \/ Head(idx) # "0")
                       THEN d[k.val] ELSE idx]

\* dic.get(&idx.parse().unwrap()).map(|v| v.as_str()).unwrap_or(idx)
index_part(d, idx) ==
    LET k == parse_u32(idx)
    IN  IF ~k.ok THEN [panic |-> TRUE, text |-> <<>>]
        ELSE [panic |-> FALSE, text |-> IF k.val \in DOMAIN d THEN d[k.val] ELSE idx]

\* replace_append: the String after the call, or as the panic left it
replace_append(store, explict_target, t, m, out) ==
    LET key == family(m.var)
    IN  IF key \in DOMAIN store
        THEN LET head == out \o m.var \o chara_part(m, explict_target) \o <<":">>
                 tail == index_part(store[key], m.idx)
             IN  [panic |-> tail.panic, dst |-> head \o tail.text]
        ELSE [panic |-> FALSE, dst |-> out \o all(t, m)]

(***************************************************************************)
(* The inputs: the table files of <target>/CSV, the options, the ERB text. *)
(***************************************************************************)
\* " 0,C ,x" / ";c" / "1,(Ａ);c"
AblLines == <<<<" ", "0", ",", "C", " ", ",", "x", "\n">>,
              <<";", "c", "\n">>,
              <<"1", ",", "(", "FW_A", ")", ";", "c">>>>

AblFiles ==
    { [head |-> "bom", lines |-> AblLines],
      [head |-> "other", lines |-> AblLines],
      [head |-> "short", lines |-> <<>>],
      \* "0,C" / "1": a row without ','
      [head |-> "bom", lines |-> <<<<"0", ",", "C", "\n">>, <<"1", "\n">>>>],
      \* "0,C" / "x,V": a row whose index is no number
      [head |-> "bom", lines |-> <<<<"0", ",", "C", "\n">>, <<"x", ",", "V", "\n">>>>] }

f_Abl == <<"A", "b", "l">>
f_JUEL == <<"J", "U", "E", "L">>
f_UP == <<"U", "P">>
f_ARG == <<"A", "R", "G">>

JuelFile == [head |-> "bom", lines |-> <<<<"0", ",", "J", "\n">>>>]
UpFile == [head |-> "bom", lines |-> <<<<"0", ",", "U", "\n">>>>]
ArgFile == [head |-> "bom", lines |-> <<<<"1", ",", "A", "\n">>>>]

\* the directories: ABL.CSV in each of its versions beside three good tables
CsvDirs ==
    { (f_Abl :> a) @@ (f_JUEL :> JuelFile) @@ (f_UP :> UpFile) @@ (f_ARG :> ArgFile) :
          a \in AblFiles }

Opts == [includes : {{}, {"ARG"}}, excludes : {{}, {"JUEL"}},
         normalize : BOOLEAN, explict_target : BOOLEAN]

s_ABL == <<"A", "B", "L">>
s_ABLNAME == <<"A", "B", "L", "N", "A", "M", "E">>
s_UP == <<"U", "P">>
s_ARG == <<"A", "R", "G">>

RECURSIVE SeqsUpTo(_, _)
SeqsUpTo(S, n) ==
    IF n = 0 THEN {<<>>}
    ELSE LET shorter == SeqsUpTo(S, n - 1)
         IN  shorter \cup {<<c>> \o r : c \in S, r \in shorter}

Leads == SeqsUpTo({"("}, MaxLead)
Bases == {s_ABL, s_ABLNAME, s_UP, s_ARG}
Scopes == {<<>>, <<":", "T">>, <<":", "1">>}
Indexes == {<<"0">>, <<"0", "1">>, <<"7">>,
            <<"4", "2", "9", "4", "9", "6", "7", "2", "9", "5">>,
            <<"4", "2", "9", "4", "9", "6", "7", "2", "9", "6">>}
Trails == {<<>>, <<" ", "U", "P", ":", "0">>}

\* "@FUNC(ARG, ARG:1, ARG:2)" and the text of the repository's test
FuncCallText == <<"@", "F", "U", "N", "C", "(", "A", "R", "G", ",", " ", "A", "R", "G", ":", "1", ",", " ", "A", "R", "G", ":", "2", ")">>
BaseRatioText == <<"@", "B", "A", "S", "E", "R", "A", "T", "I", "O", "(", "A", "R", "G", ",", " ", "A", "R", "G", ":", "1", ",", " ", "A", "R", "G", ":", "2", ")">>

ErbTexts ==
    {l \o b \o c \o <<":">> \o i \o r :
        l \in Leads, b \in Bases, c \in Scopes, i \in Indexes, r \in Trails}
    \cup {FuncCallText, BaseRatioText}

(***************************************************************************)
(* The state machine of convert().                                         *)
(***************************************************************************)
NotRead == [bom |-> FALSE, text |-> <<"?">>]
Todo == [kind |-> "todo"]

Init ==
    /\ opt \in Opts
    /\ csvdir \in CsvDirs
    /\ parsed = [f \in DOMAIN csvdir |-> Todo]
    /\ dic = EmptyMap
    /\ run = "loading"
    /\ disk = NotRead
    /\ pass = 0
    /\ pc = "idle"
    /\ erb = <<>>
    /\ dst = <<>>
    /\ last_match = 0
    /\ caps = NoCaps
    /\ mark = 0

\* the closure given to filter_map, run for one file of the parallel iterator
csv_entry(f, file, o) ==
    LET name == Str(to_uppercase(f))
        r == parse_csv(file, o.normalize)
    IN  IF ~is_need_csv(name, o) THEN [kind |-> "None"]
        ELSE IF r.kind = "Ok" THEN [kind |-> "Some", name |-> name, info |-> r.map]
        ELSE IF r.kind = "Err" THEN [kind |-> "None"]
        ELSE [kind |-> "panic"]

ParseCsv(f) ==
    /\ run = "loading"
    /\ parsed[f] = Todo
    /\ parsed' = [parsed EXCEPT ![f] = csv_entry(f, csvdir[f], opt)]
    /\ UNCHANGED <<opt, csvdir, dic, run, disk, pass, pc, erb, dst, last_match, caps, mark>>

\* collect() after every file is done, then Ok(Self { dic, explict_target })
collect(p) ==
    LET some == {f \in DOMAIN p : p[f].kind = "Some"}
    IN  [n \in {p[f].name : f \in some} |-> p[CHOOSE f \in some : p[f].name = n].info]

CsvInfoNew ==
    /\ run = "loading"
    /\ \A f \in DOMAIN parsed : parsed[f].kind \in {"None", "Some"}
    /\ dic' = collect(parsed)
    /\ run' = "ready"
    /\ UNCHANGED <<opt, csvdir, parsed, disk, pass, pc, erb, dst, last_match, caps, mark>>

\* a panic of one closure is resumed in the caller: convert() unwinds
LoadPanic ==
    /\ run = "loading"
    /\ \E f \in DOMAIN parsed : parsed[f].kind = "panic"
    /\ run' = "aborted"
    /\ UNCHANGED <<opt, csvdir, parsed, dic, disk, pass, pc, erb, dst, last_match, caps, mark>>

\* convert_erb up to the call of replace_all: the file is read
ReadErb ==
    /\ run = "ready"
    /\ pc = "idle"
    /\ pass < MaxPasses
    /\ \/ /\ disk = NotRead
          /\ \E t \in ErbTexts : erb' = t
          /\ pc' = "scan"
          /\ disk' = [bom |-> TRUE, text |-> erb']
       \/ /\ disk = NotRead
          /\ pc' = "skipped"
          /\ UNCHANGED <<erb, disk>>
       \/ /\ disk # NotRead
          /\ erb' = disk.text
          /\ pc' = "scan"
          /\ UNCHANGED disk
    /\ dst' = <<>>
    /\ last_match' = 0
    /\ caps' = NoCaps
    /\ mark' = 0
    /\ UNCHANGED <<opt, csvdir, parsed, dic, run, pass>>

\* one turn of the loop of replace_all: the text up to the match is copied
\* and the replacer is called
ReplaceAppend ==
    /\ pc = "scan"
    /\ LET m == VAR_REGEX(erb, last_match + 1)
           out == dst \o SubSeq(erb, last_match + 1, m.start - 1)
           r == replace_append(dic, opt.explict_target, erb, m, out)
       IN  /\ m # NoCaps
           /\ caps' = m
           /\ mark' = Len(out)
           /\ dst' = r.dst
           /\ IF r.panic
              THEN pc' = "panic" /\ run' = "aborted" /\ UNCHANGED last_match
              ELSE last_match' = m.end /\ UNCHANGED <<pc, run>>
    /\ UNCHANGED <<opt, csvdir, parsed, dic, disk, pass, erb>>

\* no match is left: the rest is copied and the file is written with its marker
WriteErb ==
    /\ pc = "scan"
    /\ VAR_REGEX(erb, last_match + 1) = NoCaps
    /\ dst' = dst \o SubSeq(erb, last_match + 1, Len(erb))
    /\ disk' = [bom |-> TRUE, text |-> dst']
    /\ pass' = pass + 1
    /\ pc' = "idle"
    /\ caps' = NoCaps
    /\ mark' = 0
    /\ UNCHANGED <<opt, csvdir, parsed, dic, run, erb, last_match>>

Next ==
    \/ \E f \in DOMAIN csvdir : ParseCsv(f)
    \/ CsvInfoNew
    \/ LoadPanic
    \/ ReadErb
    \/ ReplaceAppend
    \/ WriteErb

Spec == Init /\ [][Next]_vars

(***************************************************************************)
(* Vocabulary of the properties.                                           *)
(***************************************************************************)
starts_with(s, prefix) ==
    /\ Len(s) >= Len(prefix)
    /\ SubSeq(s, 1, Len(prefix)) = prefix

\* replace_append has just been called on caps
InCall == caps # NoCaps

\* what that call appended to dst
Emitted == SubSeq(dst, mark + 1, Len(dst))

\* the matched token as it stands in the input
RawText == SubSeq(erb, caps.start, caps.end)

\* the family a base name stands for, as the specification words it
StatedFamily(base) ==
    LET stripped == IF ends_with(base, s_NAME) THEN SubSeq(base, 1, Len(base) - Len(s_NAME))
                    ELSE base
        n == Str(stripped)
    IN  IF n \in {"PALAM", "UP", "DOWN"} THEN "JUEL"
        ELSE IF n = "NOWEX" THEN "EX"
        ELSE IF n \in {"UPBASE", "DOWNBASE"} THEN "BASE"
        ELSE n

RECURSIVE StripZeros(_)
StripZeros(s) == IF Len(s) > 1 /\ Head(s) = "0" THEN StripZeros(Tail(s)) ELSE s

RECURSIVE NatVal(_)
NatVal(s) == IF s = <<>> THEN 0 ELSE NatVal(SubSeq(s, 1, Len(s) - 1)) * 10 + DigitVal(Last(s))

\* the digit string denotes a value below 10^9 that is a key of the table
HasEntry(table, digits) ==
    LET z == StripZeros(digits)
    IN  Len(z) <= 9 /\ U32(NatVal(z)) \in DOMAIN table

EntryName(table, digits) == table[U32(NatVal(StripZeros(digits)))]

U32MaxText == <<"4", "2", "9", "4", "9", "6", "7", "2", "9", "5">>

RECURSIVE DigitsGreater(_, _)
DigitsGreater(a, b) ==
    IF a = <<>> THEN FALSE
    ELSE IF DigitVal(Head(a)) # DigitVal(Head(b)) THEN DigitVal(Head(a)) > DigitVal(Head(b))
    ELSE DigitsGreater(Tail(a), Tail(b))

\* the digit string denotes a value above 2^32 - 1
Overflows(digits) ==
    LET z == StripZeros(digits)
    IN  Len(z) > Len(U32MaxText) \/ (Len(z) = Len(U32MaxText) /\ DigitsGreater(z, U32MaxText))

Loaded(base) == StatedFamily(base) \in DOMAIN dic

Table(base) == dic[StatedFamily(base)]

\* ':TARGET' stands between the base name and the ':' of the index
TargetSynthesized == caps.g2 = <<>> /\ starts_with(Emitted, caps.var \o s_TARGET \o <<":">>)

(***************************************************************************)
(* C1: a matched token whose resolved family is loaded and has an entry    *)
(* for the value of INDEX is replaced by BASE, the :SCOPE segment as       *)
(* written if there is one, ':' and the entry's name; without a scope and  *)
(* with explicit-scope mode off the replacement is exactly BASE:name.      *)
(***************************************************************************)
C1_HitEmitsName ==
    (InCall /\ Loaded(caps.var) /\ HasEntry(Table(caps.var), caps.idx)) =>
        LET name == EntryName(Table(caps.var), caps.idx)
        IN  /\ pc # "panic"
            /\ starts_with(Emitted, caps.var)
            /\ ends_with(Emitted, <<":">> \o name)
            /\ caps.g2 # <<>> => Emitted = caps.var \o caps.g2 \o <<":">> \o name
            /\ (caps.g2 = <<>> /\ ~opt.explict_target) => Emitted = caps.var \o <<":">> \o name

C1_Witness ==
    /\ InCall
    /\ Loaded(caps.var)
    /\ caps.idx = <<"0", "1">>
    /\ caps.g2 = <<":", "T">>
    /\ HasEntry(Table(caps.var), caps.idx)

(***************************************************************************)
(* C2: a matched token whose resolved family is not in the store is        *)
(* appended unchanged, in every mode, and the text outside the matches is  *)
(* copied as it is: up to each match, and after the last one.              *)
(***************************************************************************)
C2_MissAndOutsideVerbatim ==
    [][pc = "scan" =>
          IF caps' # NoCaps
          THEN LET raw == SubSeq(erb, caps'.start, caps'.end)
                   sofar == dst \o SubSeq(erb, last_match + 1, caps'.start - 1)
               IN  /\ SubSeq(dst', 1, mark') = sofar
                   /\ ~Loaded(caps'.var) => (dst' = sofar \o raw /\ pc' = "scan")
          ELSE dst' = dst \o SubSeq(erb, last_match + 1, Len(erb))]_vars

C2_Witness ==
    /\ InCall
    /\ ~Loaded(caps.var)
    /\ caps.g2 # <<>>
    /\ caps.start > 1
    /\ opt.explict_target
    /\ opt.normalize

(***************************************************************************)
(* C3: a matched token whose family is loaded but whose INDEX has no entry *)
(* is replaced by the prefix (base name, scope, separators) followed by    *)
(* the index digits as written.                                            *)
(***************************************************************************)
C3_IndexMissKeepsDigits ==
    (InCall /\ Loaded(caps.var) /\ ~HasEntry(Table(caps.var), caps.idx)) =>
        /\ pc # "panic"
        /\ \/ Emitted = caps.var \o caps.g2 \o <<":">> \o caps.idx
           \/ /\ opt.explict_target
              /\ caps.g2 = <<>>
              /\ Emitted = caps.var \o s_TARGET \o <<":">> \o caps.idx

(***************************************************************************)
(* C4: the function-call text @FUNC(ARG, ARG:1, ARG:2) is returned         *)
(* unchanged whatever the store holds.                                     *)
(***************************************************************************)
Converted == pc = "idle" /\ pass >= 1

C4_FuncCallUntouched == (Converted /\ erb = FuncCallText) => dst = erb

\* C4 as amended: unchanged when no family ARG is loaded; with ARG loaded
\* ARG:1 and ARG:2 are the only references and are resolved as such
ArgIndex(digits) ==
    IF HasEntry(dic["ARG"], digits) THEN EntryName(dic["ARG"], digits) ELSE digits

C4_FuncCallUntouchedWithoutArg ==
    (Converted /\ erb = FuncCallText) =>
        IF "ARG" \notin DOMAIN dic THEN dst = erb
        ELSE dst = <<"@", "F", "U", "N", "C", "(", "A", "R", "G", ",", " ", "A", "R", "G", ":">> \o ArgIndex(<<"1">>)
                   \o <<",", " ", "A", "R", "G", ":">> \o ArgIndex(<<"2">>) \o <<")">>

C4_Witness ==
    /\ Converted
    /\ erb = FuncCallText
    /\ "ARG" \notin DOMAIN dic
    /\ "ABL" \in DOMAIN dic
    /\ opt.explict_target

(***************************************************************************)
(* C5: the table consulted for a token is that of alias(strip(BASE)),      *)
(* never one stored under the base name as written, and the replacement    *)
(* keeps the base name as written.                                         *)
(***************************************************************************)
AliasedBases ==
    { <<"P", "A", "L", "A", "M">>,
      <<"U", "P">>,
      <<"D", "O", "W", "N">>,
      <<"N", "O", "W", "E", "X">>,
      <<"U", "P", "B", "A", "S", "E">>,
      <<"D", "O", "W", "N", "B", "A", "S", "E">>,
      <<"A", "B", "L">>,
      <<"N", "A", "M", "E">>,
      <<"U", "P", "N", "A", "M", "E">>,
      <<"N", "O", "W", "E", "X", "N", "A", "M", "E">>,
      <<"D", "O", "W", "N", "B", "A", "S", "E", "N", "A", "M", "E">>,
      <<"J", "U", "E", "L">> }

C5_FamilyIsAliasOfStripped ==
    /\ \A b \in AliasedBases : family(b) = StatedFamily(b)
    /\ InCall =>
          IF Loaded(caps.var)
          THEN /\ starts_with(Emitted, caps.var \o <<":">>)
               /\ pc # "panic" =>
                     ends_with(Emitted, <<":">> \o
                         (IF HasEntry(Table(caps.var), caps.idx)
                          THEN EntryName(Table(caps.var), caps.idx) ELSE caps.idx))
          ELSE Emitted = RawText

C5_Witness ==
    /\ InCall
    /\ caps.var = s_UP
    /\ {"UP", "JUEL"} \subseteq DOMAIN dic
    /\ caps.idx = <<"0">>
    /\ dic["UP"] # dic["JUEL"]

(***************************************************************************)
(* C6: converting the output of a conversion again changes nothing.        *)
(***************************************************************************)
C6_Idempotent == (pc = "idle" /\ pass >= 2) => dst = erb

(***************************************************************************)
(* C7: a selected table file without the marker EF BB BF contributes no    *)
(* entry and every reference to its family is appended unchanged, as for   *)
(* a family that is not loaded.                                            *)
(***************************************************************************)
WithoutMarker(base) ==
    \E f \in DOMAIN csvdir :
        /\ Str(to_uppercase(f)) = StatedFamily(base)
        /\ is_need_csv(Str(to_uppercase(f)), opt)
        /\ csvdir[f].head # "bom"

C7_NoMarkerIsMiss ==
    (InCall /\ WithoutMarker(caps.var)) =>
        /\ Loaded(caps.var) => Table(caps.var) = EmptyMap
        /\ pc # "panic"
        /\ Emitted = RawText

(***************************************************************************)
(* C8: a malformed row (no ',' in a line that is neither empty nor a       *)
(* comment, or an index that is no unsigned integer) fails the load of its *)
(* file only: the family is absent, the other selected files are loaded    *)
(* and the load does not abort.                                            *)
(***************************************************************************)
MalformedRow(l) ==
    LET t == trim(l)
        c == find(t, ";")
        body == IF c = 0 THEN t ELSE SubSeq(t, 1, c - 1)
        comma == find(body, ",")
        index == SubSeq(body, 1, comma - 1)
    IN  /\ body # <<>>
        /\ \/ comma = 0
           \/ index = <<>>
           \/ \E i \in 1..Len(index) : ~IsDigit(index[i])

Malformed(file) ==
    file.head = "bom" /\ \E i \in 1..Len(file.lines) : MalformedRow(file.lines[i])

Selected(f) == is_need_csv(Str(to_uppercase(f)), opt)

C8_MalformedRowContained ==
    \A f \in DOMAIN csvdir :
        (Selected(f) /\ Malformed(csvdir[f])) =>
            /\ parsed[f].kind \in {"todo", "None"}
            /\ run # "aborted" \/ pc = "panic"
            /\ run = "ready" =>
                  /\ Str(to_uppercase(f)) \notin DOMAIN dic
                  /\ \A g \in DOMAIN csvdir :
                        (Selected(g) /\ csvdir[g].head = "bom" /\ ~Malformed(csvdir[g]))
                            => Str(to_uppercase(g)) \in DOMAIN dic

(***************************************************************************)
(* C9: a matched token of a loaded family whose INDEX is above 2^32 - 1    *)
(* is appended unchanged, without a panic, and the run goes on.            *)
(***************************************************************************)
C9_OverflowKeepsToken ==
    (InCall /\ Loaded(caps.var) /\ Overflows(caps.idx)) =>
        /\ pc # "panic"
        /\ run # "aborted"
        /\ Emitted = RawText

(***************************************************************************)
(* C10: with explicit-scope mode on, ':TARGET' is put between the base     *)
(* name and the ':' of the index exactly for the tokens without a scope    *)
(* whose resolved family is loaded and is in the per-character group.      *)
(***************************************************************************)
C10_TargetForCharaFamily ==
    InCall =>
        (TargetSynthesized <=>
            /\ opt.explict_target
            /\ caps.g2 = <<>>
            /\ Loaded(caps.var)
            /\ is_chara_csv(StatedFamily(caps.var)))

\* C10 as amended: the group is tested on the base name as written, so a
\* base name with the display-name suffix gets no ':TARGET'
C10_TargetForCharaBase ==
    InCall =>
        (TargetSynthesized <=>
            /\ opt.explict_target
            /\ caps.g2 = <<>>
            /\ Loaded(caps.var)
            /\ is_chara_csv(Str(caps.var)))

C10_Witness ==
    /\ InCall
    /\ opt.explict_target
    /\ caps.var = s_ABLNAME
    /\ caps.g2 = <<>>
    /\ Loaded(caps.var)
    /\ HasEntry(Table(caps.var), caps.idx)
    /\ ~TargetSynthesized

====
